---- MODULE Spec2Model ----
(***************************************************************************)
(* Model of kmod/term_manage.c (wifidog-ng): the terminal table, a hash    *)
(* index of terminal records guarded by one rwlock, each record carrying   *)
(* its own expiry timer.                                                   *)
(*                                                                         *)
(* Records are objects of the kmem cache, numbered in the order they are   *)
(* allocated.  A pointer to a freed object (a timer callback's argument,   *)
(* the result of find_term_by_mac) stays usable by the code: what is read  *)
(* through it is arbitrary.  The model does not hand freed memory out      *)
(* again; the allocator's reuse only adds to the behaviours shown here.    *)
(* A critical section is one step when nothing that runs without the lock  *)
(* can observe its intermediate states; term_mark is split, because        *)
(* term_is_authd reads the flags after the lock is gone.                   *)
(***************************************************************************)
EXTENDS Integers, Sequences, FiniteSets, TLC

\* ---- bounds ----
NumProcs == 2        \* execution contexts calling into the table
MaxOps   == 4        \* events of one behaviour: calls, timer firings, activity signals

\* ---- program constants ----
TERM_TTL       == 60
TERM_HASH_SIZE == 256
NULL           == 0
ENOMEM         == 12
EINVAL         == 22
EFAULT         == 14
ETH_ALEN       == 6
DATA_SIZE      == 128    \* sizeof(data) in proc_term_write

Procs == 1..NumProcs
Slots == {1, 2}      \* objects term_cache hands out before kmem_cache_zalloc fails
Macs  == {1, 2}      \* hardware addresses used by the callers (0 is a zeroed field)
Ips   == {1, 2}      \* ip values used by the callers (0 is a zeroed field)
Seeds == {0, 1}      \* values net_get_random_once gives hash_rnd

TERM_AUTHED == "TERM_AUTHED"
TERM_ACTIVE == "TERM_ACTIVE"

VARIABLES
  hash_rnd,   \* the seed of the hash
  alloc,      \* alloc[s]: object s is "unused", "live" (allocated) or "freed"
  mac,        \* term->mac   (0 in a zeroed slot)
  ip,         \* term->ip
  flags,      \* term->flags, a set of TERM_* bits
  active,     \* term->active, a set of TERM_* bits
  chain,      \* the linked records, most recently added first
  expires,    \* timer: 0 when not pending, else the timeout it was armed with
  tpc,        \* position of the record's timer callback
  term_lock,  \* writer holding term_lock, 0 when none
  readers,    \* contexts holding term_lock for reading
  pc,         \* position of each caller
  arg_mac,    \* the mac argument of the call in progress
  arg_val,    \* the authed argument of term_mark in progress
  term,       \* the local `term` of the call in progress
  wsize,      \* the local `size` of proc_term_write in progress, 0 when none
  ret,        \* values returned by the step that returned last, callee first
  ops,        \* events so far: calls started, timers fired
  old,        \* AUTHENTICATED value of the record when term_mark found it
  again,      \* the step that returned last was a term_mark asking for the
              \* value its record already had
  marked,     \* value set by the last completed term_mark on the record, -1 if none
  fresh,      \* term_is_authd in progress: the completed mark it must observe, -1 if none
  fires,      \* firings of the record's timer since creation
  activity,   \* the record received an activity signal since creation
  oops,       \* hlist_del ran on a node that is not in a list
  seq_st,     \* the listing: "closed", "opened", "stopped", or what the iterator
              \* holds: "token"/"bucket" (to show), "token_shown"/"bucket_shown",
              \* "eof" (start gave NULL), "end" (next gave NULL)
  seq_pos,    \* *pos while the iterator runs, m->index between stop and start
  seq_out,    \* the rows term_seq_show wrote last
  seq_hdr,    \* header lines written since the file was opened
  seq_cnt     \* buckets shown since the file was opened

vars == <<hash_rnd, alloc, mac, ip, flags, active, chain, expires, tpc,
          term_lock, readers, pc, arg_mac, arg_val, term, wsize, ret, ops,
          old, again, marked, fresh, fires, activity, oops,
          seq_st, seq_pos, seq_out, seq_hdr, seq_cnt>>

recvars == <<alloc, mac, ip, flags, active>>
ghost   == <<marked, fresh, fires, activity>>
seqvars == <<seq_st, seq_pos, seq_out, seq_hdr, seq_cnt>>

\* ---- helpers on sequences ----
Range(q) == {q[i] : i \in 1..Len(q)}

RECURSIVE Remove(_, _)
Remove(q, x) ==
  IF q = <<>> THEN <<>>
  ELSE IF Head(q) = x THEN Tail(q)
  ELSE <<Head(q)>> \o Remove(Tail(q), x)

\* ---- the hash index ----
\* get_unaligned((u32 *)(mac + 2)): the last four bytes of the address.
\* The addresses of the model share their first two bytes and are numbered
\* by the last four.
MacKey(m) == m

\* jhash_1word of <linux/jhash.h>, a kernel function outside this module:
\* a stand-in mixing function of the key and the seed (its values on the
\* keys and seeds of the model stay far below 2^32).  With seed 0 all keys
\* of the model share a bucket, with seed 1 they do not.
jhash_1word(key, initval) == 256 * key + 3 * key * initval + 7

term_mac_hash(m) == jhash_1word(MacKey(m), hash_rnd) % TERM_HASH_SIZE

\* the records of bucket b, head first
Bucket(b) == SelectSeq(chain, LAMBDA s : term_mac_hash(mac[s]) = b)

Linked(s) == s \in Range(chain)

\* hlist_for_each_entry + ether_addr_equal: first record of the bucket
\* with this mac, NULL when there is none
RECURSIVE FirstMatch(_, _)
FirstMatch(q, m) ==
  IF q = <<>> THEN NULL
  ELSE IF mac[Head(q)] = m THEN Head(q)
  ELSE FirstMatch(Tail(q), m)

LookupMac(m) == FirstMatch(Bucket(term_mac_hash(m)), m)

\* the holders of term_lock: a caller p, or the timer callback of record s
TimerCtx(s) == 0 - s

\* the context reading the proc file
SeqReader == "seq_read"

LockFree == term_lock = 0 /\ readers = {}
NoWriter == term_lock = 0

TypeOK ==
  /\ hash_rnd \in Seeds
  /\ alloc \in [Slots -> {"unused", "live", "freed"}]
  /\ mac \in [Slots -> {0} \cup Macs]
  /\ ip \in [Slots -> {0} \cup Ips]
  /\ flags \in [Slots -> SUBSET {TERM_AUTHED, TERM_ACTIVE}]
  /\ active \in [Slots -> SUBSET {TERM_AUTHED, TERM_ACTIVE}]
  /\ Range(chain) \subseteq Slots
  /\ expires \in [Slots -> {0, TERM_TTL}]
  /\ tpc \in [Slots -> {"none", "check", "del", "free", "rearm"}]
  /\ term_lock \in {0} \cup Procs \cup {TimerCtx(s) : s \in Slots}
  /\ readers \subseteq {SeqReader}
  /\ seq_st \in {"closed", "opened", "stopped", "token", "bucket",
                 "token_shown", "bucket_shown", "eof", "end"}
  /\ seq_pos \in 0..TERM_HASH_SIZE
  /\ seq_hdr \in Nat /\ seq_cnt \in Nat
  /\ pc \in [Procs -> {"idle", "add_link", "add_refresh", "mark_clear",
                       "mark_set", "authd_read"}]
  /\ wsize \in [Procs -> 0..DATA_SIZE]
  /\ term \in [Procs -> {NULL} \cup Slots]
  /\ oops \in BOOLEAN
  /\ again \in BOOLEAN

Init ==
  /\ hash_rnd \in Seeds
  /\ alloc = [s \in Slots |-> "unused"]
  /\ mac = [s \in Slots |-> 0]
  /\ ip = [s \in Slots |-> 0]
  /\ flags = [s \in Slots |-> {}]
  /\ active = [s \in Slots |-> {}]
  /\ chain = <<>>
  /\ expires = [s \in Slots |-> 0]
  /\ tpc = [s \in Slots |-> "none"]
  /\ term_lock = 0
  /\ readers = {}
  /\ pc = [p \in Procs |-> "idle"]
  /\ arg_mac = [p \in Procs |-> 0]
  /\ arg_val = [p \in Procs |-> 0]
  /\ term = [p \in Procs |-> NULL]
  /\ wsize = [p \in Procs |-> 0]
  /\ ret = <<>>
  /\ ops = 0
  /\ old = [p \in Procs |-> 0]
  /\ again = FALSE
  /\ marked = [s \in Slots |-> -1]
  /\ fresh = [p \in Procs |-> -1]
  /\ fires = [s \in Slots |-> 0]
  /\ activity = [s \in Slots |-> FALSE]
  /\ oops = FALSE
  /\ seq_st = "closed"
  /\ seq_pos = 0
  /\ seq_out = <<>>
  /\ seq_hdr = 0
  /\ seq_cnt = 0


\* ---- bookkeeping shared by the actions ----
FreeSlots == {s \in Slots : alloc[s] = "unused"}

Live(s) == alloc[s] = "live"

\* a term_is_authd in progress on mac m no longer has a completed mark to observe
Stale(ms) == [p \in Procs |-> IF pc[p] = "authd_read" /\ arg_mac[p] \in ms
                              THEN -1 ELSE fresh[p]]

\* The calling contexts are interchangeable and an idle one keeps no state:
\* a call is started by the lowest-numbered idle context.
CanStart(p) ==
  /\ ~oops /\ pc[p] = "idle" /\ ops < MaxOps
  /\ \A q \in Procs : q < p => pc[q] # "idle"

\* The table stores the ip and never looks at it: ip values are
\* interchangeable, and add_term is given one that a record holds or the
\* lowest one that none holds.
FreshIp(i) == \A j \in Ips : j < i => \E s \in Slots : ip[s] = j

Return(p, r) ==
  /\ pc' = [pc EXCEPT ![p] = "idle"]
  /\ ret' = <<r>>
  /\ again' = FALSE
  /\ term' = [term EXCEPT ![p] = NULL]
  /\ arg_mac' = [arg_mac EXCEPT ![p] = 0]
  /\ arg_val' = [arg_val EXCEPT ![p] = 0]

\* ---- add_term ----
\* term_alloc, the field assignments and setup_timer: the record is private.
\* kmem_cache_zalloc hands out the next object, zeroed; with none left it
\* fails and add_term returns -ENOMEM.
AddTermAlloc(p, m, i) ==
  /\ CanStart(p) /\ FreshIp(i) /\ ops' = ops + 1
  /\ IF FreeSlots = {}
     THEN /\ Return(p, -ENOMEM)
          /\ UNCHANGED <<recvars, expires, ghost>>
     ELSE LET s == CHOOSE x \in FreeSlots : \A y \in FreeSlots : x <= y IN
          /\ alloc' = [alloc EXCEPT ![s] = "live"]
          /\ mac' = [mac EXCEPT ![s] = m]
          /\ ip' = [ip EXCEPT ![s] = i]
          /\ flags' = [flags EXCEPT ![s] = {}]
          /\ active' = [active EXCEPT ![s] = {}]
          /\ expires' = [expires EXCEPT ![s] = 0]
          /\ marked' = [marked EXCEPT ![s] = -1]
          /\ fires' = [fires EXCEPT ![s] = 0]
          /\ activity' = [activity EXCEPT ![s] = FALSE]
          /\ pc' = [pc EXCEPT ![p] = "add_link"]
          /\ term' = [term EXCEPT ![p] = s]
          /\ arg_mac' = [arg_mac EXCEPT ![p] = m]
          /\ UNCHANGED <<ret, again, arg_val, fresh>>
  /\ UNCHANGED <<hash_rnd, chain, tpc, term_lock, readers, old, oops>>
  /\ UNCHANGED <<wsize, seqvars>>

\* write_lock_bh; hlist_add_head; write_unlock_bh
AddTermLink(p) ==
  /\ ~oops /\ pc[p] = "add_link" /\ LockFree
  /\ chain' = <<term[p]>> \o chain
  /\ pc' = [pc EXCEPT ![p] = "add_refresh"]
  /\ UNCHANGED <<ret, ops, hash_rnd, recvars, expires, tpc, term_lock, readers,
                 arg_mac, arg_val, term, old, ghost, oops>>
  /\ UNCHANGED <<wsize, seqvars, again>>

\* term_timer_refresh(term, TERM_TTL), after the lock is released; return 0
AddTermRefresh(p) ==
  /\ ~oops /\ pc[p] = "add_refresh"
  /\ expires' = [expires EXCEPT ![term[p]] = TERM_TTL]
  /\ Return(p, 0)
  /\ UNCHANGED <<ops, hash_rnd, recvars, chain, tpc, term_lock, readers, old,
                 ghost, oops>>
  /\ UNCHANGED <<wsize, seqvars>>

\* ---- term_mark ----
\* term_mark is static: its one caller is proc_term_write, which ignores
\* the value term_mark returns and returns its own `size` (line 197); the
\* two returns are one step.  r: what the callee returned (<<>> for void),
\* size: the caller's local `size`.
WriteReturn(p, r, size) ==
  /\ pc' = [pc EXCEPT ![p] = "idle"]
  /\ ret' = r \o <<size>>
  /\ term' = [term EXCEPT ![p] = NULL]
  /\ arg_mac' = [arg_mac EXCEPT ![p] = 0]
  /\ arg_val' = [arg_val EXCEPT ![p] = 0]
  /\ wsize' = [wsize EXCEPT ![p] = 0]

\* write_lock_bh and the search of the bucket; -1 when the mac is absent
TermMarkLock(p, m, v, size) ==
  /\ CanStart(p) /\ LockFree /\ ops' = ops + 1
  /\ LET t == LookupMac(m) IN
     IF t = NULL
     THEN /\ WriteReturn(p, <<-1>>, size)
          /\ again' = FALSE
          /\ UNCHANGED <<term_lock, old, marked, fresh>>
     ELSE /\ term_lock' = p
          /\ wsize' = [wsize EXCEPT ![p] = size]
          /\ pc' = [pc EXCEPT ![p] = "mark_clear"]
          /\ term' = [term EXCEPT ![p] = t]
          /\ arg_mac' = [arg_mac EXCEPT ![p] = m]
          /\ arg_val' = [arg_val EXCEPT ![p] = v]
          /\ old' = [old EXCEPT ![p] = IF TERM_AUTHED \in flags[t] THEN 1 ELSE 0]
          /\ marked' = [s \in Slots |-> IF mac[s] = m THEN -1 ELSE marked[s]]
          /\ fresh' = Stale({m})
          /\ UNCHANGED <<ret, again>>
  /\ UNCHANGED <<hash_rnd, recvars, chain, expires, tpc, readers, fires,
                 activity, oops>>
  /\ UNCHANGED seqvars

\* For comparison, a term_mark that clears every flag of the record.
TermMarkClearAll(p) ==
  /\ ~oops /\ pc[p] = "mark_clear"
  /\ flags' = [flags EXCEPT ![term[p]] = {}]
  /\ pc' = [pc EXCEPT ![p] = "mark_set"]
  /\ UNCHANGED <<ret, ops, hash_rnd, alloc, mac, ip, active, chain, expires, tpc,
                 term_lock, readers, arg_mac, arg_val, term, old,
                 ghost, oops>>
  /\ UNCHANGED <<wsize, seqvars, again>>

\* term->flags &= ~TERM_AUTHED
TermMarkClear(p) ==
  /\ ~oops /\ pc[p] = "mark_clear"
  /\ flags' = [flags EXCEPT ![term[p]] = @ \ {TERM_AUTHED}]
  /\ pc' = [pc EXCEPT ![p] = "mark_set"]
  /\ UNCHANGED <<ret, ops, hash_rnd, alloc, mac, ip, active, chain, expires, tpc,
                 term_lock, readers, arg_mac, arg_val, term, old,
                 ghost, oops>>
  /\ UNCHANGED <<wsize, seqvars, again>>

\* For comparison, a term_mark that sets TERM_AUTHED whatever `authed` is.
TermMarkSetAlways(p) ==
  /\ ~oops /\ pc[p] = "mark_set"
  /\ flags' = [flags EXCEPT ![term[p]] = @ \cup {TERM_AUTHED}]
  /\ marked' = [marked EXCEPT ![term[p]] = 1]
  /\ term_lock' = 0
  /\ old' = [old EXCEPT ![p] = 0]
  /\ again' = (IF arg_val[p] # 0 THEN old[p] = 1 ELSE old[p] = 0)
  /\ WriteReturn(p, <<0>>, wsize[p])
  /\ UNCHANGED <<hash_rnd, alloc, mac, ip, active, chain, expires, tpc,
                 readers, ops, fresh, fires, activity, oops>>
  /\ UNCHANGED seqvars

\* For comparison, a term_mark for which authenticating an authenticated
\* record is a toggle.
TermMarkSetToggle(p) ==
  /\ ~oops /\ pc[p] = "mark_set"
  /\ flags' = [flags EXCEPT ![term[p]] =
                 IF arg_val[p] # 0 /\ old[p] = 0 THEN @ \cup {TERM_AUTHED} ELSE @]
  /\ marked' = [marked EXCEPT ![term[p]] =
                  IF arg_val[p] # 0 /\ old[p] = 0 THEN 1 ELSE 0]
  /\ term_lock' = 0
  /\ old' = [old EXCEPT ![p] = 0]
  /\ again' = (IF arg_val[p] # 0 THEN old[p] = 1 ELSE old[p] = 0)
  /\ WriteReturn(p, <<0>>, wsize[p])
  /\ UNCHANGED <<hash_rnd, alloc, mac, ip, active, chain, expires, tpc,
                 readers, ops, fresh, fires, activity, oops>>
  /\ UNCHANGED seqvars

\* if (authed) term->flags |= TERM_AUTHED; write_unlock_bh; return 0
TermMarkSet(p) ==
  /\ ~oops /\ pc[p] = "mark_set"
  /\ flags' = [flags EXCEPT ![term[p]] =
                 IF arg_val[p] # 0 THEN @ \cup {TERM_AUTHED} ELSE @]
  /\ marked' = [marked EXCEPT ![term[p]] = IF arg_val[p] # 0 THEN 1 ELSE 0]
  /\ term_lock' = 0
  /\ old' = [old EXCEPT ![p] = 0]
  /\ again' = (IF arg_val[p] # 0 THEN old[p] = 1 ELSE old[p] = 0)
  /\ WriteReturn(p, <<0>>, wsize[p])
  /\ UNCHANGED <<hash_rnd, alloc, mac, ip, active, chain, expires, tpc,
                 readers, ops, fresh, fires, activity, oops>>
  /\ UNCHANGED seqvars

\* ---- term_is_authd ----
\* find_term_by_mac: read_lock_bh, the search, read_unlock_bh, return term
TermIsAuthdFind(p, m) ==
  /\ CanStart(p) /\ NoWriter /\ ops' = ops + 1
  /\ LET t == LookupMac(m) IN
     IF t = NULL
     THEN /\ Return(p, 0)
          /\ UNCHANGED fresh
     ELSE /\ pc' = [pc EXCEPT ![p] = "authd_read"]
          /\ term' = [term EXCEPT ![p] = t]
          /\ arg_mac' = [arg_mac EXCEPT ![p] = m]
          /\ fresh' = [fresh EXCEPT ![p] =
                         IF \E s \in Slots : Linked(s) /\ mac[s] = m /\ marked[s] # -1
                         THEN marked[CHOOSE s \in Slots :
                                       Linked(s) /\ mac[s] = m /\ marked[s] # -1]
                         ELSE -1]
          /\ UNCHANGED <<ret, again, arg_val>>
  /\ UNCHANGED <<hash_rnd, recvars, chain, expires, tpc, term_lock, readers,
                 old, marked, fires, activity, oops>>
  /\ UNCHANGED <<wsize, seqvars>>

\* term->flags & TERM_AUTHED, read through the pointer once the lock is
\* released; the flags of freed memory are whatever the allocator left
TermIsAuthdRead(p) ==
  /\ ~oops /\ pc[p] = "authd_read"
  /\ \E r \in {0, 1} :
       /\ Live(term[p]) => (r = 1 <=> TERM_AUTHED \in flags[term[p]])
       /\ Return(p, r)
  /\ fresh' = [fresh EXCEPT ![p] = -1]
  /\ UNCHANGED <<ops, hash_rnd, recvars, chain, expires, tpc, term_lock, readers,
                 old, marked, fires, activity, oops>>
  /\ UNCHANGED <<wsize, seqvars>>

\* ---- term_clear ----
\* For comparison, a term_clear that stops after the first record it finds.
TermClearFirstOnly(p, size) ==
  /\ CanStart(p) /\ LockFree /\ ops' = ops + 1
  /\ LET gone == IF chain = <<>> THEN {} ELSE {Head(chain)} IN
     /\ chain' = IF chain = <<>> THEN <<>> ELSE Tail(chain)
     /\ alloc' = [s \in Slots |-> IF s \in gone THEN "freed" ELSE alloc[s]]
     /\ mac' = [s \in Slots |-> IF s \in gone THEN 0 ELSE mac[s]]
     /\ ip' = [s \in Slots |-> IF s \in gone THEN 0 ELSE ip[s]]
     /\ flags' = [s \in Slots |-> IF s \in gone THEN {} ELSE flags[s]]
     /\ active' = [s \in Slots |-> IF s \in gone THEN {} ELSE active[s]]
     /\ expires' = [s \in Slots |-> IF s \in gone THEN 0 ELSE expires[s]]
     /\ marked' = [s \in Slots |-> IF s \in gone THEN -1 ELSE marked[s]]
     /\ fires' = [s \in Slots |-> IF s \in gone THEN 0 ELSE fires[s]]
     /\ activity' = [s \in Slots |-> IF s \in gone THEN FALSE ELSE activity[s]]
     /\ fresh' = Stale({mac[s] : s \in {x \in gone : marked[x] # -1}})
  /\ WriteReturn(p, <<>>, size)
  /\ again' = FALSE
  /\ UNCHANGED <<hash_rnd, tpc, term_lock, readers, old, oops>>
  /\ UNCHANGED seqvars

\* term_clear is static: called by proc_term_write, which then returns its
\* `size`.
\* Under the write lock, for every record of every bucket:
\* hlist_del, del_timer, kmem_cache_free.  del_timer only dequeues a pending
\* timer: a callback that is already running goes on.
TermClear(p, size) ==
  /\ CanStart(p) /\ LockFree /\ ops' = ops + 1
  /\ LET gone == Range(chain) IN
     /\ chain' = <<>>
     /\ alloc' = [s \in Slots |-> IF s \in gone THEN "freed" ELSE alloc[s]]
     /\ mac' = [s \in Slots |-> IF s \in gone THEN 0 ELSE mac[s]]
     /\ ip' = [s \in Slots |-> IF s \in gone THEN 0 ELSE ip[s]]
     /\ flags' = [s \in Slots |-> IF s \in gone THEN {} ELSE flags[s]]
     /\ active' = [s \in Slots |-> IF s \in gone THEN {} ELSE active[s]]
     /\ expires' = [s \in Slots |-> IF s \in gone THEN 0 ELSE expires[s]]
     /\ marked' = [s \in Slots |-> IF s \in gone THEN -1 ELSE marked[s]]
     /\ fires' = [s \in Slots |-> IF s \in gone THEN 0 ELSE fires[s]]
     /\ activity' = [s \in Slots |-> IF s \in gone THEN FALSE ELSE activity[s]]
     /\ fresh' = Stale({mac[s] : s \in {x \in gone : marked[x] # -1}})
  /\ WriteReturn(p, <<>>, size)
  /\ again' = FALSE
  /\ UNCHANGED <<hash_rnd, tpc, term_lock, readers, old, oops>>
  /\ UNCHANGED seqvars

\* ---- proc_term_write ----
\* The characters of a command are one-character strings.
HexVal ==
  ("0" :> 0) @@ ("1" :> 1) @@ ("2" :> 2) @@ ("3" :> 3) @@ ("4" :> 4) @@
  ("5" :> 5) @@ ("6" :> 6) @@ ("7" :> 7) @@ ("8" :> 8) @@ ("9" :> 9) @@
  ("a" :> 10) @@ ("b" :> 11) @@ ("c" :> 12) @@ ("d" :> 13) @@ ("e" :> 14) @@
  ("f" :> 15) @@ ("A" :> 10) @@ ("B" :> 11) @@ ("C" :> 12) @@ ("D" :> 13) @@
  ("E" :> 14) @@ ("F" :> 15)

IsHex(c) == c \in DOMAIN HexVal

\* sscanf(q, "%02hhX:%02hhX:%02hhX:%02hhX:%02hhX:%02hhX"): the bytes
\* converted by fields n..ETH_ALEN.  A field is one or two hex digits; the
\* scan ends at the first character that does not match.
RECURSIVE ScanMac(_, _)
ScanMac(q, n) ==
  IF q = <<>> \/ ~IsHex(Head(q)) THEN <<>>
  ELSE LET two  == Len(q) >= 2 /\ IsHex(q[2])
           byte == IF two THEN 16 * HexVal[q[1]] + HexVal[q[2]] ELSE HexVal[q[1]]
           rest == SubSeq(q, IF two THEN 3 ELSE 2, Len(q))
       IN  IF n = ETH_ALEN \/ rest = <<>> \/ Head(rest) # ":"
           THEN <<byte>>
           ELSE <<byte>> \o ScanMac(Tail(rest), n + 1)

\* the address of six bytes, numbered as in MacKey (the commands of the
\* model give 00:00 as first two bytes)
MacOf(b) == ((b[3] * 256 + b[4]) * 256 + b[5]) * 256 + b[6]

\* size after `if (size > sizeof(data)) size = sizeof(data)`
WriteSize(buf) == IF Len(buf) > DATA_SIZE THEN DATA_SIZE ELSE Len(buf)

\* data after copy_from_user and data[size - 1] = 0: the string ends
\* before the last byte copied
WriteData(buf) == SubSeq(buf, 1, WriteSize(buf) - 1)

\* what the command asks for: op "clear", "mark" (with mac and authed) or
\* "none" (pr_err)
ParseCmd(data) ==
  IF Len(data) >= 5 /\ SubSeq(data, 1, 5) = <<"c", "l", "e", "a", "r">>
  THEN [op |-> "clear", mac |-> 0, authed |-> 0]
  ELSE LET b == IF data = <<>> THEN <<>> ELSE ScanMac(Tail(data), 1) IN
       IF Len(b) # ETH_ALEN THEN [op |-> "none", mac |-> 0, authed |-> 0]
       ELSE IF data[1] = "+" THEN [op |-> "mark", mac |-> MacOf(b), authed |-> 1]
       ELSE IF data[1] = "-" THEN [op |-> "mark", mac |-> MacOf(b), authed |-> 0]
       ELSE [op |-> "none", mac |-> 0, authed |-> 0]

\* the text of an address whose last byte is written with the digits d,
\* and of a command on it
MacText(d) ==
  <<"0", "0", ":", "0", "0", ":", "0", "0", ":", "0", "0", ":", "0", "0", ":">>
  \o d
CmdText(op, d) == <<op>> \o MacText(d) \o <<"\n">>
Digits(m) == <<"0", <<"1", "2">>[m]>>

\* the buffers written by the callers: nothing, clear, authorise and deny a
\* terminal, an unknown verb, a malformed address, and a command followed
\* by padding beyond sizeof(data)
ClearText == <<"c", "l", "e", "a", "r", "\n">>
WriteBufs ==
  {<<>>, ClearText, CmdText("+", <<"z", "z">>),
   CmdText("?", Digits(1)), ClearText \o [i \in 1..124 |-> "x"]}
  \cup {CmdText(o, Digits(m)) : o \in {"+", "-"}, m \in Macs}

WriteSizes == {WriteSize(buf) : buf \in WriteBufs}

\* size and command of each buffer
WriteCmds == [buf \in WriteBufs |->
               [size |-> WriteSize(buf), cmd |-> ParseCmd(WriteData(buf))]]

\* a return of proc_term_write before any call into the table
WriteQuit(p, r) ==
  /\ CanStart(p) /\ ops' = ops + 1
  /\ Return(p, r)
  /\ UNCHANGED <<hash_rnd, recvars, chain, expires, tpc, term_lock, readers,
                 wsize, old, ghost, oops>>
  /\ UNCHANGED seqvars

\* proc_term_write up to its call into the table; fault: copy_from_user
\* could not read the buffer
ProcTermWrite(p, buf, fault) ==
  LET size == WriteCmds[buf].size
      cmd  == WriteCmds[buf].cmd
  IN
  IF Len(buf) = 0 THEN WriteQuit(p, -EINVAL)
  ELSE IF fault THEN WriteQuit(p, -EFAULT)
  ELSE IF cmd.op = "clear"
       THEN TermClear(p, size)
  ELSE IF cmd.op = "mark"
       THEN TermMarkLock(p, cmd.mac, cmd.authed, size)
  ELSE WriteQuit(p, size)

\* ---- the expiry timer ----
\* the timer wheel dequeues a pending timer and calls term_timer_timeout
\* with the pointer given to setup_timer
TimerFire(s) ==
  /\ ~oops /\ expires[s] # 0 /\ tpc[s] = "none"
  /\ ops < MaxOps /\ ops' = ops + 1
  /\ expires' = [expires EXCEPT ![s] = 0]
  /\ tpc' = [tpc EXCEPT ![s] = "check"]
  /\ fires' = [fires EXCEPT ![s] = @ + 1]
  /\ UNCHANGED <<ret, hash_rnd, recvars, chain, term_lock, readers, pc, arg_mac,
                 arg_val, term, old, marked, fresh, activity, oops>>
  /\ UNCHANGED <<wsize, seqvars, again>>

\* if (!(term->flags & TERM_ACTIVE)), evaluated without the lock; on freed
\* memory the test can go either way
TimeoutCheck(s) ==
  /\ ~oops /\ tpc[s] = "check"
  /\ \E destroy \in BOOLEAN :
       /\ Live(s) => (destroy <=> TERM_ACTIVE \notin flags[s])
       /\ tpc' = [tpc EXCEPT ![s] = IF destroy THEN "del" ELSE "rearm"]
  /\ UNCHANGED <<ret, ops, hash_rnd, recvars, chain, expires, term_lock, readers, pc,
                 arg_mac, arg_val, term, old, ghost, oops>>
  /\ UNCHANGED <<wsize, seqvars, again>>

\* write_lock_bh; hlist_del(&term->node); write_unlock_bh.  A node that is
\* in no list has pprev NULL (zeroed) or LIST_POISON2 (deleted): the store
\* through it faults.
TimeoutDel(s) ==
  /\ ~oops /\ tpc[s] = "del" /\ LockFree
  /\ IF Linked(s)
     THEN /\ chain' = Remove(chain, s)
          /\ tpc' = [tpc EXCEPT ![s] = "free"]
          /\ fresh' = IF marked[s] # -1 THEN Stale({mac[s]}) ELSE fresh
          /\ marked' = [marked EXCEPT ![s] = -1]
          /\ UNCHANGED oops
     ELSE /\ oops' = TRUE
          /\ UNCHANGED <<chain, tpc, fresh, marked>>
  /\ UNCHANGED <<ret, ops, hash_rnd, recvars, expires, term_lock, readers, pc, arg_mac,
                 arg_val, term, old, fires, activity>>
  /\ UNCHANGED <<wsize, seqvars, again>>

\* kmem_cache_free(term_cache, term)
TimeoutFree(s) ==
  /\ ~oops /\ tpc[s] = "free"
  /\ alloc' = [alloc EXCEPT ![s] = "freed"]
  /\ mac' = [mac EXCEPT ![s] = 0]
  /\ ip' = [ip EXCEPT ![s] = 0]
  /\ flags' = [flags EXCEPT ![s] = {}]
  /\ active' = [active EXCEPT ![s] = {}]
  /\ fires' = [fires EXCEPT ![s] = 0]
  /\ activity' = [activity EXCEPT ![s] = FALSE]
  /\ tpc' = [tpc EXCEPT ![s] = "none"]
  /\ UNCHANGED <<ret, ops, hash_rnd, chain, expires, term_lock, readers, pc, arg_mac,
                 arg_val, term, old, marked, fresh, oops>>
  /\ UNCHANGED <<wsize, seqvars, again>>

\* term->active &= ~TERM_ACTIVE; term_timer_refresh(term, TERM_TTL)
TimeoutRearm(s) ==
  /\ ~oops /\ tpc[s] = "rearm"
  /\ active' = [active EXCEPT ![s] = @ \ {TERM_ACTIVE}]
  /\ expires' = [expires EXCEPT ![s] = TERM_TTL]
  /\ tpc' = [tpc EXCEPT ![s] = "none"]
  /\ UNCHANGED <<ret, ops, hash_rnd, alloc, mac, ip, flags, chain, term_lock, readers,
                 pc, arg_mac, arg_val, term, old, ghost, oops>>
  /\ UNCHANGED <<wsize, seqvars, again>>

\* ---- the activity signal of the packet path ----
\* The packet path marks a terminal it finds in the table as recently
\* active: it sets TERM_ACTIVE in the flags the timer callback tests.
MarkActive(s) ==
  /\ ~oops /\ Linked(s) /\ TERM_ACTIVE \notin flags[s]
  /\ ops < MaxOps /\ ops' = ops + 1
  /\ flags' = [flags EXCEPT ![s] = @ \cup {TERM_ACTIVE}]
  /\ activity' = [activity EXCEPT ![s] = TRUE]
  /\ UNCHANGED <<ret, hash_rnd, alloc, mac, ip, active, chain, expires, tpc,
                 term_lock, readers, pc, arg_mac, arg_val, term, old,
                 marked, fresh, fires, oops>>
  /\ UNCHANGED <<wsize, seqvars, again>>

\* ---- the listing: the seq_file iterator of the proc file ----
\* what the listing leaves alone
tablevars == <<hash_rnd, recvars, chain, expires, tpc, term_lock, pc, arg_mac,
               arg_val, term, wsize, ret, old, again, ghost, oops>>

\* proc_term_open: seq_open, the position starts at 0
SeqOpen ==
  /\ ~oops /\ seq_st = "closed" /\ ops < MaxOps
  /\ seq_st' = "opened"
  /\ seq_pos' = 0 /\ seq_out' = <<>> /\ seq_hdr' = 0 /\ seq_cnt' = 0
  /\ UNCHANGED <<tablevars, readers, ops>>

\* term_seq_start, called by seq_read with the saved position: once in
\* each read of the file, which is an event of the behaviour
TermSeqStart ==
  /\ ~oops /\ seq_st \in {"opened", "stopped"} /\ NoWriter
  /\ ops < MaxOps /\ ops' = ops + 1
  /\ readers' = readers \cup {SeqReader}
  /\ seq_st' = IF seq_pos = 0 THEN "token"
               ELSE IF seq_pos >= TERM_HASH_SIZE THEN "eof"
               ELSE "bucket"
  /\ UNCHANGED <<tablevars, seq_pos, seq_out, seq_hdr, seq_cnt>>

\* the rows term_seq_show prints for the chain q of one bucket; authed is
\* the local `authed`, which the loop sets and never clears
RECURSIVE ShowRows(_, _)
ShowRows(q, authed) ==
  IF q = <<>> THEN <<>>
  ELSE LET a == IF TERM_AUTHED \in flags[Head(q)] THEN 1 ELSE authed IN
       <<[term |-> Head(q), mac |-> mac[Head(q)], ip |-> ip[Head(q)],
          authed |-> a]>> \o ShowRows(Tail(q), a)

\* term_seq_show: the header for SEQ_START_TOKEN, else the rows of the bucket
TermSeqShow ==
  /\ ~oops /\ seq_st \in {"token", "bucket"}
  /\ IF seq_st = "token"
     THEN /\ seq_st' = "token_shown"
          /\ seq_out' = <<"header">>
          /\ seq_hdr' = seq_hdr + 1
          /\ UNCHANGED seq_cnt
     ELSE /\ seq_st' = "bucket_shown"
          /\ seq_out' = ShowRows(Bucket(seq_pos), 0)
          /\ seq_cnt' = seq_cnt + 1
          /\ UNCHANGED seq_hdr
  /\ UNCHANGED <<tablevars, readers, ops, seq_pos>>

\* term_seq_next, called by seq_read while its buffer has room
TermSeqNext ==
  /\ ~oops /\ seq_st \in {"token_shown", "bucket_shown"}
  /\ seq_pos' = IF seq_st = "token_shown" THEN 0 ELSE seq_pos + 1
  /\ seq_st' = IF seq_pos' >= TERM_HASH_SIZE THEN "end" ELSE "bucket"
  /\ seq_out' = <<>>
  /\ UNCHANGED <<tablevars, readers, ops, seq_hdr, seq_cnt>>

\* seq_read of <linux/seq_file.h>, kernel code outside this module: the
\* position it saves when it stops after the element at pos has been
\* written out
SeqReadIndex(pos) == pos + 1

\* term_seq_stop, called by seq_read when its buffer is full after an
\* element, or when start or next returned NULL.  After a start that
\* returned NULL the read returns 0 and the listing is over.
TermSeqStop ==
  /\ ~oops /\ seq_st \in {"token_shown", "bucket_shown", "eof", "end"}
  /\ readers' = readers \ {SeqReader}
  /\ seq_st' = IF seq_st = "eof" THEN "closed" ELSE "stopped"
  /\ seq_pos' = IF seq_st \in {"token_shown", "bucket_shown"}
                THEN SeqReadIndex(seq_pos) ELSE seq_pos
  /\ seq_out' = <<>>
  /\ UNCHANGED <<tablevars, ops, seq_hdr, seq_cnt>>

Next ==
  \/ \E p \in Procs, m \in Macs, i \in Ips : AddTermAlloc(p, m, i)
  \/ \E p \in Procs : AddTermLink(p)
  \/ \E p \in Procs : AddTermRefresh(p)
  \/ \E p \in Procs, buf \in WriteBufs, fault \in BOOLEAN :
       ProcTermWrite(p, buf, fault)
  \/ \E p \in Procs : TermMarkClear(p)
  \/ \E p \in Procs : TermMarkSet(p)
  \/ \E p \in Procs, m \in Macs : TermIsAuthdFind(p, m)
  \/ \E p \in Procs : TermIsAuthdRead(p)
  \/ \E s \in Slots : TimerFire(s)
  \/ \E s \in Slots : TimeoutCheck(s)
  \/ \E s \in Slots : TimeoutDel(s)
  \/ \E s \in Slots : TimeoutFree(s)
  \/ \E s \in Slots : TimeoutRearm(s)
  \/ \E s \in Slots : MarkActive(s)

Spec == Init /\ [][Next]_vars

\* the listing against a caller that changes the table
ListProcs == {1}

NextList ==
  \/ SeqOpen
  \/ TermSeqStart
  \/ TermSeqShow
  \/ TermSeqNext
  \/ TermSeqStop
  \/ \E p \in ListProcs, m \in Macs, i \in Ips : AddTermAlloc(p, m, i)
  \/ \E p \in ListProcs : AddTermLink(p)
  \/ \E p \in ListProcs : AddTermRefresh(p)
  \/ \E p \in ListProcs, buf \in WriteBufs, fault \in BOOLEAN :
       ProcTermWrite(p, buf, fault)
  \/ \E p \in ListProcs : TermMarkClear(p)
  \/ \E p \in ListProcs : TermMarkSet(p)

SpecList == Init /\ [][NextList]_vars

\* ---------------------------------------------------------------------
\* C1..C10
\* ---------------------------------------------------------------------

\* C1 (uniqueness): the table never holds two records with the same mac.
C1_Uniqueness ==
  \A s1, s2 \in Slots :
    (Linked(s1) /\ Linked(s2) /\ mac[s1] = mac[s2]) => s1 = s2

\* C2 (lookup correctness): for every record add_term put in the table and
\* that is still there, find_term_by_mac of its mac returns a record with
\* the ip it was added with; for a mac with no record in the table
\* find_term_by_mac returns NULL and term_is_authd returns 0.
C2_LookupCorrectness ==
  /\ [](\A s \in Slots : Linked(s) =>
          /\ LookupMac(mac[s]) # NULL
          /\ ip[LookupMac(mac[s])] = ip[s])
  /\ [](\A m \in Macs : (\A s \in Slots : Linked(s) => mac[s] # m) =>
          LookupMac(m) = NULL)
  /\ [][\A p \in Procs, m \in Macs :
          (TermIsAuthdFind(p, m) /\ \A s \in Slots : Linked(s) => mac[s] # m)
             => ret' = <<0>>]_vars

\* C3 (visibility ordering): a term_is_authd(mac) that starts after a
\* term_mark(mac, v) completed, the marked terminal being neither removed
\* nor marked again before the call returns, returns v.
C3_VisibilityOrdering ==
  [][\A p \in Procs :
       (TermIsAuthdRead(p) /\ fresh[p] # -1) => ret' = <<fresh[p]>>]_vars

\* C4 (no torn view): a term_is_authd that reads a record while a
\* term_mark is in progress on it returns the AUTHENTICATED value the
\* record had before that term_mark or the value it sets; marking an
\* authenticated terminal authenticated again never shows 0.
C4_NoTornView ==
  [][\A p, q \in Procs :
       (/\ TermIsAuthdRead(p)
        /\ Live(term[p])
        /\ pc[q] \in {"mark_clear", "mark_set"}
        /\ term[q] = term[p])
          => ret' \in {<<old[q]>>, <<arg_val[q]>>}]_vars

\* C5 (exactly-once reclamation): no record is unlinked or freed twice:
\* hlist_del never runs on a record that has already been unlinked, and a
\* freed record is not in the table.
C5_ExactlyOnce ==
  /\ ~oops
  /\ \A s \in Slots : alloc[s] = "freed" => ~Linked(s)

\* C6 (timer cancellation): once a record is destroyed, its timer is not
\* pending and no expiry callback for it is running.
C6_TimerCancelled ==
  \A s \in Slots : alloc[s] = "freed" => (expires[s] = 0 /\ tpc[s] = "none")

\* C7 (lock-scoped reads): term_is_authd reads the flags of the record it
\* found while holding the read lock, and the record has not been freed.
C7_LockScopedReads ==
  \A p \in Procs : pc[p] = "authd_read" =>
    (p \in readers /\ Live(term[p]))

\* C8 (lock-scoped writes): whoever is about to mutate a record of the
\* table holds the write lock: the callback at its rearm-or-destroy
\* decision and at its clearing of the activity flag and rearming, add_term
\* at its arming of the timer, term_mark at its flag updates.
C8_LockScopedWrites ==
  /\ \A s \in Slots : (Linked(s) /\ tpc[s] \in {"check", "rearm"}) =>
                        term_lock = TimerCtx(s)
  /\ \A p \in Procs : (pc[p] = "add_refresh" /\ Linked(term[p])) =>
                        term_lock = p
  /\ \A p \in Procs : pc[p] \in {"mark_clear", "mark_set"} => term_lock = p

\* no term_mark has touched the record, none is in progress on it
Unmarked(s) ==
  /\ marked[s] = -1
  /\ \A q \in Procs : pc[q] \in {"mark_clear", "mark_set"} => term[q] # s

\* C9 (creation state): when add_term returns 0 and its record is in the
\* table, the record has TERM_ACTIVE in the flags the callback tests, has
\* TERM_AUTHED clear unless a term_mark touched it, and its timer is armed
\* for TERM_TTL.
C9_CreationState ==
  [][\A p \in Procs :
       (AddTermRefresh(p) /\ Linked(term[p])) =>
          /\ TERM_ACTIVE \in flags'[term[p]]
          /\ Unmarked(term[p]) => TERM_AUTHED \notin flags'[term[p]]
          /\ expires'[term[p]] = TERM_TTL]_vars

\* C10 (expiry debounce): a terminal that received no activity signal is
\* not removed by the first firing of its timer and is not rearmed by the
\* second.
C10_ExpiryDebounce ==
  [][\A s \in Slots :
       (Live(s) /\ Linked(s) /\ ~activity[s]) =>
          /\ TimeoutDel(s) => fires[s] >= 2
          /\ TimeoutRearm(s) => fires[s] < 2]_vars


\* ---------------------------------------------------------------------
\* C11..C20
\* ---------------------------------------------------------------------

\* C11 (expiry state machine): when the callback of a record that is in the
\* table takes the rearm branch, the flag the next firing will test is
\* clear afterwards; when it takes the destroy branch, the record leaves
\* the table and its timer is not armed again.
C11_ExpiryStateMachine ==
  [][\A s \in Slots :
       /\ (TimeoutRearm(s) /\ Live(s) /\ Linked(s))
            => TERM_ACTIVE \notin flags'[s]
       /\ (TimeoutDel(s) /\ Linked(s))
            => (s \notin Range(chain') /\ expires'[s] = 0)]_vars

\* C12 (timer armed): every record in the table has its timer pending or
\* its callback running.
C12_TimerArmed ==
  \A s \in Slots : Linked(s) => (expires[s] # 0 \/ tpc[s] # "none")


\* C13 (clear-all completeness): when term_clear returns, every bucket is
\* empty and find_term_by_mac finds no record for any mac.
C13_ClearAll ==
  [][\A p \in Procs :
       (\E size \in WriteSizes : TermClear(p, size))
         => /\ \A b \in 0..(TERM_HASH_SIZE - 1) : Bucket(b)' = <<>>
            /\ \A m \in Macs : LookupMac(m)' = NULL]_vars

\* term_clear has returned after emptying a table that held a record, and
\* no timer had fired
C13_Witness ==
  /\ ret = <<Len(ClearText)>> /\ ops = 2
  /\ chain = <<>>
  /\ \E s \in Slots : alloc[s] = "freed"


\* C14 (mark result): term_mark of a mac with no record in the table
\* returns -1 and changes no record and no chain; term_mark of a mac that
\* has one returns 0, leaves the record found for that mac with
\* AUTHENTICATED equal to the value asked for, and no step of it adds or
\* removes a record.
C14_MarkResult ==
  [][\A p \in Procs :
       /\ (/\ pc[p] = "idle" /\ pc'[p] = "idle" /\ ops' # ops /\ Len(ret') = 2
           /\ \E m \in {0} \cup Macs, v \in {0, 1} :
                 LookupMac(m) = NULL /\ TermMarkLock(p, m, v, ret'[2]))
            => (Head(ret') = -1 /\ UNCHANGED <<recvars, chain, expires, tpc>>)
       /\ (pc[p] = "idle" /\ pc'[p] = "mark_clear")
            => (term'[p] = LookupMac(arg_mac'[p]) /\ UNCHANGED <<alloc, mac, chain>>)
       /\ TermMarkClear(p) => UNCHANGED <<alloc, mac, chain>>
       /\ TermMarkSet(p)
            => /\ Head(ret') = 0
               /\ term[p] = LookupMac(arg_mac[p])
               /\ TERM_AUTHED \in flags'[term[p]] <=> arg_val[p] # 0
               /\ UNCHANGED <<alloc, mac, chain>>]_vars

\* term_mark has returned -1 for a mac that is not in the table, in a table
\* where an earlier term_mark authenticated a record
C14_Witness ==
  /\ Len(ret) = 2 /\ ret[1] = -1
  /\ \E s \in Slots : Linked(s) /\ marked[s] = 1 /\ TERM_AUTHED \in flags[s]


\* C15 (enumeration snapshot): from the first term_seq_start of a listing
\* to the end of its traversal no step changes the chains or the flags of
\* the table, and the steps of the traversal change no record.
C15_Snapshot ==
  [][/\ seq_st \notin {"closed", "opened"} => UNCHANGED <<chain, flags>>
     /\ (TermSeqStart \/ TermSeqShow \/ TermSeqNext \/ TermSeqStop)
          => UNCHANGED <<recvars, chain, expires, tpc>>]_vars


\* C16 (write always acknowledged): a proc_term_write whose buffer could be
\* read returns no error, whatever the buffer holds, and when the command
\* is malformed or its verb unknown the table is unchanged.
C16_WriteAcknowledged ==
  [][\A p \in Procs, buf \in WriteBufs :
       (pc[p] = "idle" /\ pc'[p] = "idle" /\ ops' # ops
          /\ ProcTermWrite(p, buf, FALSE))
         => /\ ret'[Len(ret')] >= 0
            /\ WriteCmds[buf].cmd.op = "none"
                 => UNCHANGED <<recvars, chain, expires, tpc>>]_vars


\* the term_mark of p asks for the AUTHENTICATED value its record had when
\* it was found: it repeats the term_mark that gave the record that value
Repeats(p) == old[p] = (IF arg_val[p] # 0 THEN 1 ELSE 0)

\* C17 (idempotence): a term_mark that repeats the last one on its record
\* returns the same value, 0, and leaves the table as the first left it:
\* the record's flags as they were, every other record, the chains and
\* the timers untouched.
C17_Idempotence ==
  [][\A p \in Procs :
       /\ (pc[p] = "idle" /\ pc'[p] = "mark_clear" /\ Repeats(p)')
            => UNCHANGED <<recvars, chain, expires, tpc>>
       /\ (TermMarkClear(p) /\ Repeats(p))
            => /\ \A s \in Slots \ {term[p]} : flags'[s] = flags[s]
               /\ UNCHANGED <<alloc, mac, ip, active, chain, expires, tpc>>
       /\ (TermMarkSet(p) /\ Repeats(p))
            => /\ Head(ret') = 0
               /\ flags'[term[p]] \ {TERM_AUTHED} = flags[term[p]] \ {TERM_AUTHED}
               /\ TERM_AUTHED \in flags'[term[p]] <=> old[p] = 1
               /\ \A s \in Slots \ {term[p]} : flags'[s] = flags[s]
               /\ UNCHANGED <<alloc, mac, ip, active, chain, expires, tpc>>]_vars

\* a term_mark that authenticated an authenticated record has returned
C17_Witness ==
  /\ again /\ Head(ret) = 0
  /\ \A s \in Slots : Linked(s) => marked[s] \in {-1, 1}
  /\ \E s \in Slots : Linked(s) /\ marked[s] = 1 /\ TERM_AUTHED \in flags[s]


\* C18 (mark frame): the steps of a term_mark that found its record change
\* nothing but the AUTHENTICATED bit of that record: its other flags, its
\* ip and timer, the chains and every other record stay as they are.
C18_MarkFrame ==
  [][\A p \in Procs :
       ((pc[p] = "idle" /\ pc'[p] = "mark_clear")
          \/ TermMarkClear(p) \/ TermMarkSet(p))
         => LET t == IF pc[p] = "idle" THEN term'[p] ELSE term[p] IN
            /\ flags'[t] \ {TERM_AUTHED} = flags[t] \ {TERM_AUTHED}
            /\ \A s \in Slots \ {t} : flags'[s] = flags[s]
            /\ UNCHANGED <<alloc, mac, ip, active, chain, expires, tpc>>]_vars

\* a term_mark has returned 0 on a record that is marked active and has
\* its timer pending
C18_Witness ==
  /\ Len(ret) = 2 /\ ret[1] = 0
  /\ \E s \in Slots :
       /\ Linked(s) /\ marked[s] \in {0, 1}
       /\ TERM_ACTIVE \in flags[s] /\ expires[s] = TERM_TTL


\* C19 (Authed column): in the rows term_seq_show writes for a bucket, the
\* Authed column of a row is 1 exactly when the terminal of that row has
\* AUTHENTICATED set.
C19_AuthedColumn ==
  seq_st = "bucket_shown" =>
    \A i \in 1..Len(seq_out) :
      seq_out[i].authed = 1 <=> TERM_AUTHED \in flags[seq_out[i].term]

\* C20 (iterator coverage): a listing writes the header once and shows the
\* buckets 0, 1, 2, ... each once, in one read or in several; when the
\* traversal ends all TERM_HASH_SIZE buckets have been shown; the read lock
\* is held from every term_seq_start to the term_seq_stop that follows it.
C20_IteratorCoverage ==
  /\ seq_hdr <= 1
  /\ seq_st = "bucket_shown" => (seq_hdr = 1 /\ seq_cnt = seq_pos + 1)
  /\ seq_st \in {"eof", "end"} => (seq_hdr = 1 /\ seq_cnt = TERM_HASH_SIZE)
  /\ SeqReader \in readers
       <=> seq_st \in {"token", "bucket", "token_shown", "bucket_shown",
                       "eof", "end"}

====
